---------------------------- MODULE Spec2Model ----------------------------
(***************************************************************************)
(* Model of the Apktool MCP server (src/APktool.py): the tool-dispatch     *)
(* boundary call_tool, the Command Runner _run_command and the tool        *)
(* handlers.                                                               *)
(*                                                                         *)
(* Text is modelled as a sequence of tokens.  A token is either one        *)
(* character of a caller-supplied value ("a", " ", ";", "/", ".") or one   *)
(* literal fragment of a format string of the source, kept whole           *)
(* ("Command failed: ").  A path object (pathlib.Path) is the record       *)
(* [root, parts] that pathlib keeps; str(), name, stem and the / operator  *)
(* are computed from it as pathlib computes them.                          *)
(***************************************************************************)
EXTENDS Integers, Sequences, FiniteSets, TLC

(***************************************************************************)
(* Bounds of the model.                                                    *)
(***************************************************************************)
\* number of tool calls the server answers in one behaviour
MaxCalls == 2

(***************************************************************************)
(* Text helpers.                                                           *)
(***************************************************************************)
Range(s) == {s[i] : i \in 1..Len(s)}

\* sub occurs in text as a contiguous run of tokens (Python's `sub in text`)
Contains(text, sub) ==
    \E i \in 1..(Len(text) + 1) :
        /\ i + Len(sub) - 1 <= Len(text)
        /\ SubSeq(text, i, i + Len(sub) - 1) = sub

StartsWith(text, prefix) ==
    /\ Len(prefix) <= Len(text)
    /\ SubSeq(text, 1, Len(prefix)) = prefix

RECURSIVE JoinWith(_, _)
\* sep.join(items), items a sequence of texts
JoinWith(items, sep) ==
    IF Len(items) = 0 THEN <<>>
    ELSE IF Len(items) = 1 THEN items[1]
    ELSE items[1] \o sep \o JoinWith(Tail(items), sep)

RECURSIVE SplitOn(_, _)
\* text.split(c): the components between the occurrences of token c
SplitOn(text, c) ==
    IF \A i \in 1..Len(text) : text[i] # c THEN <<text>>
    ELSE LET k == CHOOSE i \in 1..Len(text) :
                      /\ text[i] = c
                      /\ \A j \in 1..(i - 1) : text[j] # c
         IN  <<SubSeq(text, 1, k - 1)>> \o SplitOn(SubSeq(text, k + 1, Len(text)), c)

RECURSIVE Filter(_, _)
\* the members of items that are not in the set drop, in order
Filter(items, drop) ==
    IF Len(items) = 0 THEN <<>>
    ELSE IF items[1] \in drop THEN Filter(Tail(items), drop)
    ELSE <<items[1]>> \o Filter(Tail(items), drop)

(***************************************************************************)
(* pathlib.Path on a POSIX host.                                           *)
(***************************************************************************)
\* the root pathlib keeps: "/" for an absolute path, "//" for exactly two
\* leading slashes, nothing for a relative path
PathRoot(s) ==
    IF Len(s) = 0 \/ s[1] # "/" THEN <<>>
    ELSE IF Len(s) >= 2 /\ s[2] = "/" /\ ~(Len(s) >= 3 /\ s[3] = "/")
         THEN <<"/", "/">>
         ELSE <<"/">>

\* Path(s): empty and "." components are dropped
Path(s) ==
    [root  |-> PathRoot(s),
     parts |-> Filter(SplitOn(s, "/"), {<<>>, <<".">>})]

\* str(p)
PathStr(p) ==
    IF p.root = <<>> /\ Len(p.parts) = 0 THEN <<".">>
    ELSE p.root \o JoinWith(p.parts, <<"/">>)

\* p.name: the final component, empty when there is none
PathName(p) ==
    IF Len(p.parts) = 0 THEN <<>> ELSE p.parts[Len(p.parts)]

\* p.stem: the name without its last suffix; a leading or trailing dot
\* starts no suffix
PathStem(p) ==
    LET n    == PathName(p)
        dots == {i \in 1..Len(n) : n[i] = "."}
        last == IF dots = {} THEN 0
                ELSE CHOOSE i \in dots : \A j \in dots : j <= i
    IN  IF 1 < last /\ last < Len(n) THEN SubSeq(n, 1, last - 1) ELSE n

\* p / s: an absolute right operand replaces the left one
PathJoin(p, s) ==
    IF PathRoot(s) # <<>> THEN Path(s)
    ELSE [root |-> p.root, parts |-> p.parts \o Path(s).parts]


(***************************************************************************)
(* The server's configuration and the inputs of a tool call.               *)
(***************************************************************************)
\* self.apktool_path, the default "apktool"
apktool_path == <<"apktool">>

\* self.work_dir, an absolute directory (the scratch workspace)
work_dir == Path(<<"/", "w">>)

\* the eight names list_tools declares
ToolNames ==
    {"decode_apk", "build_apk", "install_framework", "analyze_manifest",
     "extract_strings", "list_permissions", "find_smali_references",
     "get_apk_info"}

\* names a caller may send that call_tool does not know
UnknownNames == {"decode", "no_such_tool"}

\* the keyword parameters of each handler, in the order of its signature
Params(h) ==
    CASE h = "_decode_apk"            -> <<"apk_path", "output_dir", "force", "no_res", "no_src">>
      [] h = "_build_apk"             -> <<"source_dir", "output_apk", "force">>
      [] h = "_install_framework"     -> <<"framework_path", "tag">>
      [] h = "_analyze_manifest"      -> <<"apk_dir">>
      [] h = "_extract_strings"       -> <<"apk_dir", "locale">>
      [] h = "_list_permissions"      -> <<"apk_dir">>
      [] h = "_find_smali_references" -> <<"apk_dir", "pattern", "case_sensitive">>
      [] h = "_get_apk_info"          -> <<"apk_path">>
      [] OTHER                        -> <<>>

\* the parameters without a default, in the order of the signature
Required(h) ==
    CASE h = "_find_smali_references" -> <<"apk_dir", "pattern">>
      [] h = "none"                   -> <<>>
      [] OTHER                        -> <<Params(h)[1]>>

\* a key no handler accepts
UnknownKey == "bogus"

\* caller-supplied string values: plain, with a space, with ';', absolute,
\* with a doubled separator, with a suffix, "..", with a "." component,
\* and the empty string
StrVals ==
    {<<>>, <<"a">>, <<"a", " ", "b">>, <<"a", ";", "b">>, <<"/", "a">>,
     <<"a", "/", "/", "b">>, <<"a", ".", "b">>, <<".", ".">>,
     <<".", "/", "a">>}

\* the values a caller may give for a key; a flag is sent only to override
\* its default
ValsOf(key) ==
    IF key \in {"force", "no_res", "no_src"} THEN {TRUE}
    ELSE IF key = "case_sensitive" THEN {FALSE}
    ELSE IF key = UnknownKey THEN {<<"a">>}
    ELSE StrVals

RECURSIVE ArgMaps(_)
\* every argument mapping over a subset of the keys
ArgMaps(keys) ==
    IF keys = {} THEN {<<>>}
    ELSE LET k    == CHOOSE x \in keys : TRUE
             rest == ArgMaps(keys \ {k})
         IN  rest \cup {(k :> v) @@ r : r \in rest, v \in ValsOf(k)}

\* the properties the input schema of a tool declares; a caller that sends
\* an undeclared name still sends arguments
SchemaKeys(tool) ==
    CASE tool = "decode_apk"            -> {"apk_path", "output_dir", "force", "no_res", "no_src"}
      [] tool = "build_apk"             -> {"source_dir", "output_apk", "force"}
      [] tool = "install_framework"     -> {"framework_path", "tag"}
      [] tool = "analyze_manifest"      -> {"apk_dir"}
      [] tool = "extract_strings"       -> {"apk_dir", "locale"}
      [] tool = "list_permissions"      -> {"apk_dir"}
      [] tool = "find_smali_references" -> {"apk_dir", "pattern", "case_sensitive"}
      [] OTHER                          -> {"apk_path"}

\* the required list of the input schema of a tool
SchemaRequired(tool) ==
    CASE tool = "find_smali_references" -> {"apk_dir", "pattern"}
      [] tool = "decode_apk"            -> {"apk_path"}
      [] tool = "build_apk"             -> {"source_dir"}
      [] tool = "install_framework"     -> {"framework_path"}
      [] tool = "get_apk_info"          -> {"apk_path"}
      [] tool \in ToolNames             -> {"apk_dir"}
      [] OTHER                          -> {}

\* the argument mappings a caller may send with a tool name: any of the
\* schema's properties, and possibly a key the schema does not declare
Arguments(tool) == ArgMaps(SchemaKeys(tool) \cup {UnknownKey})

\* arguments.get(key, default)
Arg(args, key, default) == IF key \in DOMAIN args THEN args[key] ELSE default

\* None: the handlers only test it for truthiness, as they do the empty string
None == <<>>

(***************************************************************************)
(* What a coroutine does up to its next suspension point: it raises an     *)
(* exception, returns a text, or awaits _run_command(cmd).                 *)
(***************************************************************************)
Raise(type, text) == [k |-> "raise",  type |-> type, text |-> text, cmd |-> <<>>]
Return(text)      == [k |-> "return", type |-> "",   text |-> text, cmd |-> <<>>]
Await(cmd)        == [k |-> "await",  type |-> "",   text |-> <<>>, cmd |-> cmd]
NoStep            == [k |-> "none",   type |-> "",   text |-> <<>>, cmd |-> <<>>]

\* the exception classes the handlers and the runner raise; all of them
\* derive from Exception
ExceptionClasses ==
    {"ValueError", "TypeError", "FileNotFoundError", "RuntimeError",
     "UnicodeDecodeError"}

(***************************************************************************)
(* The Command Runner, _run_command.                                       *)
(***************************************************************************)
\* ' '.join(cmd)
JoinCmd(cmd) == JoinWith(cmd, <<" ">>)

\* SpawnArgv through create_subprocess_shell(' '.join(cmd))
SpawnArgvShell(cmd) == <<<<"sh">>, <<"-c">>, JoinCmd(cmd)>>

\* the argument vector create_subprocess_exec(*cmd) hands to the process
SpawnArgv(cmd) == cmd

\* why create_subprocess_exec can fail: the executable or the working
\* directory does not exist, or the executable may not be executed
SpawnFailures == {"no_executable", "no_cwd", "not_permitted"}

\* str(e) of the OSError of a failed spawn
SpawnErrorText(cmd, why) ==
    CASE why = "no_executable" ->
             <<"[Errno 2] No such file or directory: ", "'">> \o cmd[1] \o <<"'">>
      [] why = "no_cwd" ->
             <<"[Errno 2] No such file or directory: ", "'">> \o PathStr(work_dir) \o <<"'">>
      [] why = "not_permitted" ->
             <<"[Errno 13] Permission denied: ", "'">> \o cmd[1] \o <<"'">>

\* CommandFailedText reporting stdout in place of stderr
CommandFailedTextStdout(cmd, out, err) ==
    <<"Command failed: ">> \o JoinCmd(cmd) \o <<"\nError: ">> \o out

\* the text of the RuntimeError raised on a non-zero exit status
CommandFailedText(cmd, out, err) ==
    <<"Command failed: ">> \o JoinCmd(cmd) \o <<"\nError: ">> \o err

\* RunCommandExcept without the cause, str(e)
RunCommandExceptNoCause(cmd, etext) ==
    Raise("RuntimeError", <<"Failed to execute command: ">> \o JoinCmd(cmd))

\* the except clause: it wraps every exception of the try block, the
\* RuntimeError above included
RunCommandExcept(cmd, etext) ==
    Raise("RuntimeError",
          <<"Failed to execute command: ">> \o JoinCmd(cmd) \o <<"\nError: ">> \o etext)

\* _run_command when create_subprocess_exec raises
RunCommandSpawnError(cmd, why) == RunCommandExcept(cmd, SpawnErrorText(cmd, why))

\* _run_command after communicate() returned
RunCommandExit(cmd, code, out, err) ==
    IF code # 0 THEN RunCommandExcept(cmd, CommandFailedText(cmd, out, err))
    ELSE Return(IF out # <<>> THEN out ELSE err)

(***************************************************************************)
(* The tool handlers.  f is what the handler finds on the filesystem at    *)
(* the path it requires: "ok", "missing", "empty" (present, nothing in it  *)
(* matches) or "undecodable" (present, not UTF-8).  Each handler is given  *)
(* up to its await of _run_command; <handler>_resume is the rest, r being  *)
(* what the runner returned or raised.                                     *)
(***************************************************************************)
Flag(present, flag) == IF present THEN <<flag>> ELSE <<>>

\* lines 391-394: the directory _decode_apk passes after -o
decode_output_path(args) ==
    LET apk_file   == Path(args["apk_path"])
        given      == Arg(args, "output_dir", None)
        output_dir == IF given = <<>> THEN PathStem(apk_file) ELSE given
    IN  PathJoin(work_dir, output_dir)

_decode_apk(args, f) ==
    LET apk_file == Path(args["apk_path"])
    IN  IF f = "missing"
        THEN Raise("FileNotFoundError", <<"APK file not found: ">> \o args["apk_path"])
        ELSE Await(<<apktool_path, <<"d">>, PathStr(apk_file)>>
                   \o Flag(Arg(args, "force", FALSE), <<"-f">>)
                   \o Flag(Arg(args, "no_res", FALSE), <<"-r">>)
                   \o Flag(Arg(args, "no_src", FALSE), <<"-s">>)
                   \o <<<<"-o">>, PathStr(decode_output_path(args))>>)

_decode_apk_resume(args, r) ==
    IF r.k = "raise" THEN r
    ELSE Return(<<"Successfully decompiled APK to: ">>
                \o PathStr(decode_output_path(args))
                \o <<"\n\nOutput:\n">> \o r.text)

_build_apk(args, f) ==
    LET source_path == Path(args["source_dir"])
        output_apk  == Arg(args, "output_apk", None)
    IN  IF f = "missing"
        THEN Raise("FileNotFoundError",
                   <<"Source directory not found: ">> \o args["source_dir"])
        ELSE Await(<<apktool_path, <<"b">>, PathStr(source_path)>>
                   \o Flag(Arg(args, "force", FALSE), <<"-f">>)
                   \o (IF output_apk # <<>> THEN <<<<"-o">>, output_apk>> ELSE <<>>))

_build_apk_resume(args, r) ==
    IF r.k = "raise" THEN r
    ELSE Return(<<"Successfully built APK from: ">>
                \o PathStr(Path(args["source_dir"]))
                \o <<"\n\nOutput:\n">> \o r.text)

_install_framework(args, f) ==
    LET framework_file == Path(args["framework_path"])
        tag            == Arg(args, "tag", None)
    IN  IF f = "missing"
        THEN Raise("FileNotFoundError",
                   <<"Framework file not found: ">> \o args["framework_path"])
        ELSE Await(<<apktool_path, <<"if">>, PathStr(framework_file)>>
                   \o (IF tag # <<>> THEN <<<<"-t">>, tag>> ELSE <<>>))

_install_framework_resume(args, r) ==
    IF r.k = "raise" THEN r
    ELSE Return(<<"Successfully installed framework: ">> \o args["framework_path"]
                \o <<"\n\nOutput:\n">> \o r.text)

\* get_apk_info_catches narrowed to except FileNotFoundError
get_apk_info_catches_not_found(type) == type = "FileNotFoundError"

\* the bare except: of _get_apk_info catches every exception class
get_apk_info_catches(type) == TRUE

\* get_apk_info_fallback trying a second badging tool
get_apk_info_fallback_retry(args) ==
    Await(<<<<"aapt2">>, <<"dump">>, <<"badging">>, PathStr(Path(args["apk_path"]))>>)

\* lines 564-570: the report built from apk_file.stat()
get_apk_info_fallback(args) ==
    Return(<<"APK File Information:\n", "Path: ">> \o PathStr(Path(args["apk_path"]))
           \o <<"\n", "Size: ", "<st_size>", " bytes\n", "Modified: ", "<st_mtime>", "\n",
                "Note: aapt not available for detailed analysis">>)

\* _get_apk_info without its exists() check
_get_apk_info_unchecked(args, f) ==
    Await(<<<<"aapt">>, <<"dump">>, <<"badging">>, PathStr(Path(args["apk_path"]))>>)

_get_apk_info(args, f) ==
    LET apk_file == Path(args["apk_path"])
    IN  IF f = "missing"
        THEN Raise("FileNotFoundError", <<"APK file not found: ">> \o args["apk_path"])
        ELSE Await(<<<<"aapt">>, <<"dump">>, <<"badging">>, PathStr(apk_file)>>)

_get_apk_info_resume(args, r) ==
    IF r.k = "return" THEN Return(<<"APK Information:\n\n">> \o r.text)
    ELSE IF get_apk_info_catches(r.type) THEN get_apk_info_fallback(args)
    ELSE r

\* the handlers that read the decompiled project: the text they compute
\* from the files is kept as one token
DecodeError == Raise("UnicodeDecodeError", <<"'utf-8' codec can't decode byte">>)

_analyze_manifest(args, f) ==
    IF f = "missing"
    THEN Raise("FileNotFoundError",
               <<"AndroidManifest.xml not found in: ">> \o args["apk_dir"])
    ELSE IF f = "undecodable" THEN DecodeError
    ELSE Return(<<"AndroidManifest.xml Analysis:\n\n", "<analysis>",
                  "\n\nFull content:\n", "<content>">>)

_extract_strings(args, f) ==
    LET res_dir == PathJoin(Path(args["apk_dir"]), <<"res">>)
        locale  == Arg(args, "locale", <<>>)
    IN  IF f = "missing"
        THEN Raise("FileNotFoundError",
                   <<"Resources directory not found: ">> \o PathStr(res_dir))
        ELSE IF f = "empty"
        THEN Return(<<"No string files found for locale: ">>
                    \o (IF locale # <<>> THEN locale ELSE <<"default">>))
        ELSE IF f = "undecodable" THEN DecodeError
        ELSE Return(<<"Extracted strings from ", "<n>", " files:\n", "<strings>">>)

_list_permissions(args, f) ==
    IF f = "missing"
    THEN Raise("FileNotFoundError",
               <<"AndroidManifest.xml not found in: ">> \o args["apk_dir"])
    ELSE IF f = "undecodable" THEN DecodeError
    ELSE IF f = "empty" THEN Return(<<"No permissions found in AndroidManifest.xml">>)
    ELSE Return(<<"Found ", "<n>", " permissions:\n\n", "<permissions>">>)

_find_smali_references(args, f) ==
    LET apk_path == Path(args["apk_dir"])
        pattern  == args["pattern"]
    IN  IF f = "missing"
        THEN Raise("FileNotFoundError",
                   <<"[Errno 2] No such file or directory: ", "'">>
                   \o PathStr(apk_path) \o <<"'">>)
        ELSE IF f = "empty" THEN Return(<<"No smali directories found">>)
        ELSE IF f = "undecodable"
        THEN Return(<<"Pattern '">> \o pattern \o <<"' not found in smali code">>)
        ELSE Return(<<"Found ", "<n>", " matches for '">> \o pattern
                    \o <<"':\n\n", "<matches>">>)

\* what the handler finds at its required path; pathlib maps "" and "." to
\* the current directory, which exists, as its parent ".." does
FsChoices(h, args) ==
    IF h \in {"_decode_apk", "_build_apk", "_install_framework", "_get_apk_info"}
    THEN IF PathStr(Path(args[Required(h)[1]])) \in {<<".">>, <<".", ".">>}
         THEN {"ok"} ELSE {"ok", "missing"}
    ELSE IF h = "_analyze_manifest" THEN {"ok", "missing", "undecodable"}
    ELSE {"ok", "missing", "empty", "undecodable"}

(***************************************************************************)
(* The dispatch boundary, call_tool.                                       *)
(***************************************************************************)
\* HandlerOf with the last elif turned into the else branch
HandlerOfElseGetInfo(n) ==
    CASE n = "decode_apk"            -> "_decode_apk"
      [] n = "build_apk"             -> "_build_apk"
      [] n = "install_framework"     -> "_install_framework"
      [] n = "analyze_manifest"      -> "_analyze_manifest"
      [] n = "extract_strings"       -> "_extract_strings"
      [] n = "list_permissions"      -> "_list_permissions"
      [] n = "find_smali_references" -> "_find_smali_references"
      [] OTHER                       -> "_get_apk_info"

\* the if/elif chain of call_tool: the handler a name selects, "none" for
\* the else branch
HandlerOf(n) ==
    CASE n = "decode_apk"            -> "_decode_apk"
      [] n = "build_apk"             -> "_build_apk"
      [] n = "install_framework"     -> "_install_framework"
      [] n = "analyze_manifest"      -> "_analyze_manifest"
      [] n = "extract_strings"       -> "_extract_strings"
      [] n = "list_permissions"      -> "_list_permissions"
      [] n = "find_smali_references" -> "_find_smali_references"
      [] n = "get_apk_info"          -> "_get_apk_info"
      [] OTHER                       -> "none"

\* the required parameters that args leaves out, in signature order
MissingOf(h, args) ==
    LET req == Required(h)
    IN  Filter(req, {req[i] : i \in {j \in 1..Len(req) : req[j] \in DOMAIN args}})

\* handler(**arguments): Python binds the keywords before it looks for
\* missing parameters, so an unexpected keyword is reported first
Bind(h, args) ==
    LET unexpected == DOMAIN args \ Range(Params(h))
        missing    == MissingOf(h, args)
    IN  IF unexpected # {}
        THEN Raise("TypeError",
                   <<h, "() got an unexpected keyword argument ", "'",
                     CHOOSE key \in unexpected : TRUE, "'">>)
        ELSE IF Len(missing) = 1
        THEN Raise("TypeError",
                   <<h, "() missing 1 required positional argument: ",
                     "'", missing[1], "'">>)
        ELSE IF Len(missing) = 2
        THEN Raise("TypeError",
                   <<h, "() missing 2 required positional arguments: ",
                     "'", missing[1], "'", " and ", "'", missing[2], "'">>)
        ELSE NoStep

\* the body of the selected handler, up to its first suspension point
Start(h, args, f) ==
    CASE h = "_decode_apk"            -> _decode_apk(args, f)
      [] h = "_build_apk"             -> _build_apk(args, f)
      [] h = "_install_framework"     -> _install_framework(args, f)
      [] h = "_analyze_manifest"      -> _analyze_manifest(args, f)
      [] h = "_extract_strings"       -> _extract_strings(args, f)
      [] h = "_list_permissions"      -> _list_permissions(args, f)
      [] h = "_find_smali_references" -> _find_smali_references(args, f)
      [] h = "_get_apk_info"          -> _get_apk_info(args, f)

\* the rest of the handler once _run_command has returned or raised r
Resume(h, args, r) ==
    CASE h = "_decode_apk"        -> _decode_apk_resume(args, r)
      [] h = "_build_apk"         -> _build_apk_resume(args, r)
      [] h = "_install_framework" -> _install_framework_resume(args, r)
      [] h = "_get_apk_info"      -> _get_apk_info_resume(args, r)

\* Catches narrowed to except RuntimeError
CatchesRuntimeErrorOnly(type) == type = "RuntimeError"

\* except Exception: the classes call_tool catches
Catches(type) == type \in ExceptionClasses

\* the CallToolResult of a finished call
ToolOutcome(n, step) ==
    IF step.k = "return" THEN [isError |-> FALSE, text |-> step.text]
    ELSE [isError |-> TRUE,
          text    |-> <<"Error executing ", n, ": ">> \o step.text]

(***************************************************************************)
(* The state of the server while it answers tool calls.                    *)
(***************************************************************************)
VARIABLES
    pc,         \* "idle", "exec" (in create_subprocess_exec), "communicate"
                \* (in process.communicate), "done" (result returned),
                \* "fault" (an exception left call_tool)
    name,       \* the tool name of the call in progress
    arguments,  \* its argument mapping
    fs,         \* what the handler found on the filesystem, "untouched" if
                \* no handler ran
    handler,    \* the handler call_tool invoked, "none" if it invoked none
    cmd,        \* the command of the last _run_command of this call
    argv,       \* the argument vector the last spawned process received
    runs,       \* invocations of _run_command in this call
    results,    \* results (output or error) _run_command produced in this call
    spawns,     \* processes spawned in this call
    proc,       \* exit status and captured output of the last process
    runner,     \* what the last _run_command returned or raised
    outcome,    \* what reached call_tool's try block: the handler's return
                \* value or the exception raised
    result,     \* the CallToolResult of the call
    calls       \* calls answered so far

\* the state of the functions studied on their own, outside a call_tool
\* dispatch: each is <<>> until its specification sets it
VARIABLES
    manifest,   \* _analyze_manifest: the manifest read and the text returned
    smali,      \* _find_smali_references: the files searched and the result
    resource,   \* read_resource: the URI, the files present and the result
    tasks       \* the call_tool coroutines in flight on the event loop

server == <<pc, name, arguments, fs, handler, cmd, argv, runs, results, spawns,
            proc, runner, outcome, result, calls>>

aux == <<manifest, smali, resource, tasks>>

vars == <<pc, name, arguments, fs, handler, cmd, argv, runs, results, spawns,
          proc, runner, outcome, result, calls, manifest, smali, resource, tasks>>

NoProc   == [code |-> -1, out |-> <<>>, err |-> <<>>]
NoResult == [isError |-> FALSE, text |-> <<>>]

Names == ToolNames \cup UnknownNames

\* the process's exit status and what it wrote to stdout and stderr
ExitCodes  == {0, 1}
StdoutVals == {<<>>, <<"o">>}
StderrVals == {<<>>, <<"e">>}

ServerIdle ==
    /\ pc = "idle"
    /\ name = ""
    /\ arguments = <<>>
    /\ fs = "untouched"
    /\ handler = "none"
    /\ cmd = <<>>
    /\ argv = <<>>
    /\ runs = 0
    /\ results = 0
    /\ spawns = 0
    /\ proc = NoProc
    /\ runner = NoStep
    /\ outcome = NoStep
    /\ result = NoResult
    /\ calls = 0

Init ==
    /\ ServerIdle
    /\ manifest = <<>>
    /\ smali = <<>>
    /\ resource = <<>>
    /\ tasks = <<>>

\* a coroutine step reaches call_tool: an await starts _run_command, a
\* return or a caught exception ends the call with its CallToolResult
Deliver(n, step) ==
    IF step.k = "await"
    THEN /\ pc' = "exec"
         /\ cmd' = step.cmd
         /\ runs' = runs + 1
         /\ outcome' = NoStep
         /\ result' = NoResult
    ELSE /\ outcome' = step
         /\ pc' = IF step.k = "raise" /\ ~Catches(step.type) THEN "fault" ELSE "done"
         /\ result' = IF step.k = "raise" /\ ~Catches(step.type) THEN NoResult
                      ELSE ToolOutcome(n, step)
         /\ UNCHANGED <<cmd, runs>>

\* call_tool(name, arguments), up to the first suspension point
call_tool(n, args, f) ==
    /\ pc = "idle"
    /\ calls < MaxCalls
    /\ LET h    == HandlerOf(n)
           b    == IF h = "none" THEN Raise("ValueError", <<"Unknown tool: ", n>>)
                   ELSE Bind(h, args)
           step == IF b.k = "raise" THEN b ELSE Start(h, args, f)
       IN  /\ handler' = IF b.k = "raise" THEN "none" ELSE h
           /\ Deliver(n, step)
    /\ name' = n
    /\ arguments' = args
    /\ fs' = f
    /\ UNCHANGED <<argv, results, spawns, proc, runner, calls>>
    /\ UNCHANGED aux

\* the filesystem is consulted only by a handler that was invoked
FsFor(n, args) ==
    IF HandlerOf(n) # "none" /\ Bind(HandlerOf(n), args).k # "raise"
    THEN FsChoices(HandlerOf(n), args) ELSE {"untouched"}

\* create_subprocess_exec started the process
spawn_ok ==
    /\ pc = "exec"
    /\ pc' = "communicate"
    /\ argv' = SpawnArgv(cmd)
    /\ spawns' = spawns + 1
    /\ UNCHANGED <<name, arguments, fs, handler, cmd, runs, results, proc, runner,
                   outcome, result, calls>>
    /\ UNCHANGED aux

\* create_subprocess_exec raised: no process was started
spawn_error(why) ==
    /\ pc = "exec"
    /\ LET r == RunCommandSpawnError(cmd, why)
       IN  /\ runner' = r
           /\ Deliver(name, Resume(handler, arguments, r))
    /\ results' = results + 1
    /\ UNCHANGED <<name, arguments, fs, handler, argv, spawns, proc, calls>>
    /\ UNCHANGED aux

\* communicate() returned: the process exited with code, out and err
process_exit(code, out, err) ==
    /\ pc = "communicate"
    /\ proc' = [code |-> code, out |-> out, err |-> err]
    /\ LET r == RunCommandExit(cmd, code, out, err)
       IN  /\ runner' = r
           /\ Deliver(name, Resume(handler, arguments, r))
    /\ results' = results + 1
    /\ UNCHANGED <<name, arguments, fs, handler, argv, spawns, calls>>
    /\ UNCHANGED aux

\* the result went back to the caller; the server keeps nothing of the call
respond ==
    /\ pc = "done"
    /\ pc' = "idle"
    /\ calls' = calls + 1
    /\ name' = ""
    /\ arguments' = <<>>
    /\ fs' = "untouched"
    /\ handler' = "none"
    /\ cmd' = <<>>
    /\ argv' = <<>>
    /\ runs' = 0
    /\ results' = 0
    /\ spawns' = 0
    /\ proc' = NoProc
    /\ runner' = NoStep
    /\ outcome' = NoStep
    /\ result' = NoResult
    /\ UNCHANGED aux

Next ==
    \/ \E n \in Names : \E args \in Arguments(n) : \E f \in FsFor(n, args) :
           call_tool(n, args, f)
    \/ spawn_ok
    \/ \E why \in SpawnFailures : spawn_error(why)
    \/ \E code \in ExitCodes, out \in StdoutVals, err \in StderrVals :
           process_exit(code, out, err)
    \/ respond

Spec == Init /\ [][Next]_vars

(***************************************************************************)
(* Vocabulary of the properties.                                           *)
(***************************************************************************)
\* the handlers that run an external command
CommandHandlers == {"_decode_apk", "_build_apk", "_install_framework", "_get_apk_info"}

\* a call is in progress or has just been answered
InCall == pc # "idle"

\* every key a caller may send
AllKeys == UNION {SchemaKeys(n) : n \in Names} \cup {UnknownKey}

\* the argument names an error text mentions
NamedKeys(text) == Range(text) \cap AllKeys

\* the text is Python's report of missing required arguments
IsMissingArgument(text) ==
    \/ "() missing 1 required positional argument: " \in Range(text)
    \/ "() missing 2 required positional arguments: " \in Range(text)

\* the required fields of the tool's schema that the arguments omit
Omitted == SchemaRequired(name) \ DOMAIN arguments

\* v is one element of the argument vector
IsElement(v, vec) == \E i \in 1..Len(vec) : vec[i] = v

\* v is the element that follows the flag in the argument vector
FollowsFlag(v, flag, vec) == \E i \in 2..Len(vec) : vec[i - 1] = flag /\ vec[i] = v

(***************************************************************************)
(* C1.  A tool name that is not one of the eight registered tools gets an  *)
(* error outcome saying the tool is unknown; no handler is invoked, the    *)
(* filesystem is not consulted and no subprocess is run or spawned.        *)
(***************************************************************************)
C1_UnknownToolRejected ==
    InCall /\ name \notin ToolNames =>
        /\ pc = "done"
        /\ result.isError
        /\ outcome.type = "ValueError"
        /\ Contains(result.text, <<"Unknown tool: ", name>>)
        /\ handler = "none"
        /\ fs = "untouched"
        /\ runs = 0
        /\ spawns = 0

C1_Witness ==
    /\ pc = "done"
    /\ name \in UnknownNames
    /\ "apk_path" \in DOMAIN arguments
    /\ result.isError

(***************************************************************************)
(* C2.  A call to a registered tool that omits required fields of its      *)
(* schema gets a missing-argument error that names the omitted fields and  *)
(* no others, and no subprocess is run or spawned.                         *)
(***************************************************************************)
C2_MissingArgumentNamed ==
    InCall /\ name \in ToolNames /\ Omitted # {} =>
        /\ pc = "done"
        /\ result.isError
        /\ runs = 0
        /\ spawns = 0
        /\ IsMissingArgument(result.text)
        /\ NamedKeys(result.text) = Omitted

(***************************************************************************)
(* C3.  No exception leaves call_tool: a call that has ended carries a     *)
(* CallToolResult that is either the handler's text without the error      *)
(* flag, or, with the error flag, "Error executing <name>: " followed by   *)
(* the message of the exception.                                           *)
(***************************************************************************)
C3_StructuredOutcome ==
    /\ pc \in {"idle", "exec", "communicate", "done"}
    /\ pc = "done" =>
         \/ /\ outcome.k = "return"
            /\ ~result.isError
            /\ result.text = outcome.text
         \/ /\ outcome.k = "raise"
            /\ result.isError
            /\ result.text = <<"Error executing ", name, ": ">> \o outcome.text

C3_Witness ==
    /\ pc = "done"
    /\ result.isError
    /\ outcome.type = "UnicodeDecodeError"

(***************************************************************************)
(* C4.  The external process receives the command as a vector of discrete  *)
(* elements, never as one shell string.                                    *)
(***************************************************************************)
\* the arguments a handler turns into a path object before it passes them on
PathKeys(h) ==
    CASE h = "_decode_apk"        -> {"apk_path"}
      [] h = "_build_apk"         -> {"source_dir"}
      [] h = "_install_framework" -> {"framework_path"}
      [] h = "_get_apk_info"      -> {"apk_path"}
      [] OTHER                    -> {}

\* the optional arguments a handler passes on as they are, with their flag
FlagOfKey(h) ==
    CASE h = "_build_apk"         -> [output_apk |-> <<"-o">>]
      [] h = "_install_framework" -> [tag |-> <<"-t">>]
      [] OTHER                    -> <<>>

\* the optional values the caller gave; an empty one counts as not given
GivenKeys(h) == {key \in DOMAIN FlagOfKey(h) \cap DOMAIN arguments : arguments[key] # <<>>}

\* the characters of a value other than the path syntax "/" and "."
Plain(v) == Filter(v, {"/", "."})

\* the length of the argument vector, from the flags and the optional
\* values given
ExpectedLen(h) ==
    IF h = "_get_apk_info" THEN 4
    ELSE 3 + Cardinality(DOMAIN arguments \cap {"force", "no_res", "no_src"})
           + 2 * Cardinality(GivenKeys(h))
           + (IF h = "_decode_apk" THEN 2 ELSE 0)

\* C4 as claimed: every caller-supplied value (APK path, source directory,
\* framework file, output name, tag) is one unmodified element of the argument
\* vector, whose length does not depend on the content of the values.
C4_ValuesUnmodified ==
    pc = "communicate" =>
        /\ \A key \in PathKeys(handler) \cup GivenKeys(handler) :
               IsElement(arguments[key], argv)
        /\ Len(argv) = ExpectedLen(handler)

\* C4 as amended: every caller-supplied value reaches the process inside
\* exactly one element of the argument vector: an output name or tag as it
\* is, after its flag; a path as pathlib renders it, which changes none of
\* its characters but "/" and "."; decode's output directory as the last
\* element, after -o.  The length of the vector depends on the flags and
\* on which optional values are non-empty, and on nothing else.
C4_ArgvDiscrete ==
    pc = "communicate" =>
        /\ \A key \in PathKeys(handler) :
               /\ IsElement(PathStr(Path(arguments[key])), argv)
               /\ Plain(PathStr(Path(arguments[key]))) = Plain(arguments[key])
        /\ \A key \in GivenKeys(handler) :
               FollowsFlag(arguments[key], FlagOfKey(handler)[key], argv)
        /\ handler = "_decode_apk" =>
               /\ argv[Len(argv) - 1] = <<"-o">>
               /\ LET out   == Plain(argv[Len(argv)])
                      given == Plain(Arg(arguments, "output_dir", <<>>))
                  IN  /\ Len(given) <= Len(out)
                      /\ SubSeq(out, Len(out) - Len(given) + 1, Len(out)) = given
        /\ Len(argv) = ExpectedLen(handler)

C4_Witness ==
    /\ pc = "communicate"
    /\ handler = "_build_apk"
    /\ "source_dir" \in DOMAIN arguments /\ arguments["source_dir"] = <<"a", " ", "b">>
    /\ "output_apk" \in DOMAIN arguments /\ arguments["output_apk"] = <<"a", ";", "b">>

(***************************************************************************)
(* C5.  decode, build, install-framework and get-info fail with            *)
(* FileNotFoundError when the required input path does not exist, and run  *)
(* and spawn nothing.                                                      *)
(***************************************************************************)
C5_FileNotFoundNoSpawn ==
    InCall /\ handler \in CommandHandlers /\ fs = "missing" =>
        /\ pc = "done"
        /\ result.isError
        /\ outcome.type = "FileNotFoundError"
        /\ Contains(result.text, arguments[Required(handler)[1]])
        /\ runs = 0
        /\ spawns = 0

C5_Witness ==
    /\ pc = "done"
    /\ handler = "_get_apk_info"
    /\ fs = "missing"
    /\ result.isError

(***************************************************************************)
(* C6.  The error of the runner for a process that exited non-zero.        *)
(***************************************************************************)
\* the process of the last _run_command exited with a non-zero status
ExitedNonZero == proc.code > 0

NonZeroErrors(c) ==
    {RunCommandExit(c, code, out, err) :
         code \in ExitCodes \ {0}, out \in StdoutVals, err \in StderrVals}

\* the errors _run_command can raise for cmd when the spawn fails
SpawnErrors(c) == {RunCommandSpawnError(c, why) : why \in SpawnFailures}

\* C7: an error of the runner is either one of a failed spawn or one of a
\* non-zero exit, never both, and it is the one that happened.
C7_SpawnErrorDistinct ==
    runner.k = "raise" =>
        /\ proc = NoProc => /\ spawns = 0
                            /\ runner \in SpawnErrors(cmd)
                            /\ runner \notin NonZeroErrors(cmd)
        /\ ExitedNonZero => /\ spawns = 1
                            /\ runner \in NonZeroErrors(cmd)
                            /\ runner \notin SpawnErrors(cmd)
        /\ proc = NoProc \/ ExitedNonZero

C7_Witness ==
    /\ pc = "done"
    /\ runner.k = "raise"
    /\ proc = NoProc
    /\ handler = "_decode_apk"
    /\ result.isError

(***************************************************************************)
(* C8.  get-info on an existing APK always succeeds: when the badging      *)
(* command fails it reports the file's metadata with the note.  For        *)
(* decode, build and install-framework an error of the runner is the       *)
(* error of the call.                                                      *)
(***************************************************************************)
C8_OnlyGetInfoFallsBack ==
    /\ pc = "done" /\ handler = "_get_apk_info" /\ fs = "ok" => ~result.isError
    /\ pc = "done" /\ runner.k = "raise" =>
          IF handler = "_get_apk_info"
          THEN /\ ~result.isError
               /\ StartsWith(result.text, <<"APK File Information:\n">>)
               /\ Contains(result.text, <<"Size: ", "<st_size>">>)
               /\ Contains(result.text, <<"Modified: ", "<st_mtime>">>)
               /\ Contains(result.text, <<"Note: aapt not available for detailed analysis">>)
          ELSE /\ handler \in {"_decode_apk", "_build_apk", "_install_framework"}
               /\ result.isError
               /\ Contains(result.text, runner.text)

C8_Witness ==
    /\ pc = "done"
    /\ handler = "_get_apk_info"
    /\ ExitedNonZero
    /\ ~result.isError

(***************************************************************************)
(* C9.  A call runs _run_command at most once; each run spawns at most one *)
(* process and produces exactly one result; after the runner has failed    *)
(* the call is over.                                                       *)
(***************************************************************************)
C9_NoRetry ==
    /\ runs <= 1
    /\ spawns <= runs
    /\ results <= runs
    /\ pc \in {"exec", "communicate"} => results = runs - 1
    /\ pc = "done" => results = runs
    /\ runner.k = "raise" => pc = "done"

C9_Witness ==
    /\ pc = "done"
    /\ runner.k = "raise"
    /\ spawns = 1
    /\ results = 1

(***************************************************************************)
(* C10.  The path decode passes after -o is a directory under the scratch  *)
(* workspace: <workspace>/<apk-basename> when no output directory is       *)
(* given, <workspace>/<output_dir> when one is.                            *)
(***************************************************************************)
\* p names something below the workspace: it extends the workspace's path
\* by components none of which is empty or ".."
UnderWorkspace(p) ==
    LET ws == PathStr(work_dir) \o <<"/">>
    IN  /\ StartsWith(p, ws)
        /\ Len(p) > Len(ws)
        /\ \A c \in Range(SplitOn(SubSeq(p, Len(ws) + 1, Len(p)), "/")) :
               c \notin {<<>>, <<".", ".">>}

\* C10: after -o comes a path under the workspace, the workspace joined with
\* the APK's base name or with the output directory given.
C10_OutputUnderWorkspace ==
    pc = "communicate" /\ handler = "_decode_apk" =>
        LET out   == argv[Len(argv)]
            given == Arg(arguments, "output_dir", <<>>)
            ws    == PathStr(work_dir) \o <<"/">>
        IN  /\ argv[Len(argv) - 1] = <<"-o">>
            /\ UnderWorkspace(out)
            /\ given = <<>> => out = ws \o PathStem(Path(arguments["apk_path"]))
            /\ given # <<>> => Path(out) = Path(ws \o given)

(***************************************************************************)
(* _analyze_manifest on the text of a manifest.                            *)
(*                                                                         *)
(* A manifest line is a sequence of tokens: each substring the analysis    *)
(* looks for is one token, written in a letter case a manifest uses        *)
(* ("Activity" as in android:name=".MainActivity", "SERVICE" as in         *)
(* android.permission.FOREGROUND_SERVICE); " " is whitespace.              *)
(***************************************************************************)
\* lines of a manifest and tokens of a line
MaxLines == 2
MaxLineLen == 3

ManifestTokens ==
    {" ", "package=", "android:name=", "Activity", "SERVICE", "receiver",
     "uses-permission"}

Whitespace == {" "}

\* str.lower()
lower(text) ==
    [i \in 1..Len(text) |->
        CASE text[i] = "Activity" -> "activity"
          [] text[i] = "SERVICE"  -> "service"
          [] text[i] = "A"        -> "a"
          [] OTHER                -> text[i]]

\* str.strip(): leading and trailing whitespace removed
strip(text) ==
    LET keep == {i \in 1..Len(text) : text[i] \notin Whitespace}
    IN  IF keep = {} THEN <<>>
        ELSE SubSeq(text, CHOOSE i \in keep : \A j \in keep : i <= j,
                          CHOOSE i \in keep : \A j \in keep : j <= i)

\* the body of the loop over the lines: the if/elif chain appends at most
\* one entry for a stripped line, that of the first condition that holds
analysis_append(line) ==
    IF Contains(line, <<"package=">>)
    THEN << <<"Package: ">> \o line >>
    ELSE IF Contains(line, <<"android:name=">>) /\ Contains(lower(line), <<"activity">>)
    THEN << <<"Activity: ">> \o line >>
    ELSE IF Contains(line, <<"android:name=">>) /\ Contains(lower(line), <<"service">>)
    THEN << <<"Service: ">> \o line >>
    ELSE IF Contains(line, <<"android:name=">>) /\ Contains(lower(line), <<"receiver">>)
    THEN << <<"Receiver: ">> \o line >>
    ELSE IF Contains(line, <<"uses-permission">>)
    THEN << <<"Permission: ">> \o line >>
    ELSE <<>>

RECURSIVE analysis(_)
\* the list `analysis` after the loop over lines
analysis(lines) ==
    IF Len(lines) = 0 THEN <<>>
    ELSE analysis_append(strip(lines[1])) \o analysis(Tail(lines))

analysis_text(content) ==
    LET a == analysis(SplitOn(content, "\n"))
    IN  IF Len(a) > 0 THEN JoinWith(a, <<"\n">>) ELSE <<"No key elements found">>

\* the text _analyze_manifest returns for a manifest it could read
analyze_manifest_text(content) ==
    <<"AndroidManifest.xml Analysis:\n\n">> \o analysis_text(content)
        \o <<"\n\nFull content:\n">> \o content

BoundedSeq(S, n) == UNION {[1..k -> S] : k \in 0..n}

ManifestLines == BoundedSeq(ManifestTokens, MaxLineLen)

\* the manifests read: one to MaxLines lines joined by newlines
ManifestContents ==
    {JoinWith(ls, <<"\n">>) : ls \in BoundedSeq(ManifestLines, MaxLines) \ {<<>>}}

InitManifest ==
    /\ ServerIdle
    /\ \E content \in ManifestContents :
           manifest = [at |-> "read", content |-> content, text |-> <<>>]
    /\ smali = <<>>
    /\ resource = <<>>
    /\ tasks = <<>>

\* _analyze_manifest from manifest_path.read_text to its return
analyze_manifest ==
    /\ manifest.at = "read"
    /\ manifest' = [manifest EXCEPT !.at = "returned",
                                    !.text = analyze_manifest_text(manifest.content)]
    /\ UNCHANGED <<server, smali, resource, tasks>>

NextManifest == analyze_manifest

SpecManifest == InitManifest /\ [][NextManifest]_vars

\* the analysis reports a line under a label: the label followed by the
\* line, surrounding whitespace aside, is in the returned analysis
ReportedAs(label, line) ==
    Contains(manifest.text, <<label>> \o strip(line))

\* C11: every manifest line containing 'package=' is reported as a package
\* declaration, every line containing 'android:name=' together with
\* 'activity', 'service' or 'receiver' (in any letter case) under that
\* category, and every line containing 'uses-permission' as a permission
\* entry, each entry carrying the text of the line.
C11_EveryLineClassified ==
    manifest.at = "returned" =>
        \A line \in Range(SplitOn(manifest.content, "\n")) :
            LET named(kind) == /\ Contains(line, <<"android:name=">>)
                               /\ Contains(lower(line), <<kind>>)
            IN  /\ Contains(line, <<"package=">>) => ReportedAs("Package: ", line)
                /\ named("activity") => ReportedAs("Activity: ", line)
                /\ named("service") => ReportedAs("Service: ", line)
                /\ named("receiver") => ReportedAs("Receiver: ", line)
                /\ Contains(line, <<"uses-permission">>)
                       => ReportedAs("Permission: ", line)

(***************************************************************************)
(* _find_smali_references on the .smali files of a project.                *)
(*                                                                         *)
(* The files are those rglob("*.smali") yields under the smali*            *)
(* directories, in the order it yields them; a file is its text or is      *)
(* unreadable (read_text raises).  A line is a sequence of one-character   *)
(* tokens.                                                                 *)
(***************************************************************************)
\* matches[:50]
MaxListed == 50

\* files searched, and lines of a file before its run of repeated lines
MaxFiles == 2
MaxHeadLines == 1

SmaliLines == {<<"a">>, <<" ", "A", " ">>}

Repeat(x, n) == [i \in 1..n |-> x]

\* the texts of a file: a few lines, then no or MaxListed copies of an
\* indented line
SmaliTexts ==
    {JoinWith(head \o Repeat(<<" ", "A", " ">>, n), <<"\n">>) :
        head \in BoundedSeq(SmaliLines, MaxHeadLines), n \in {0, MaxListed}}

SmaliFiles ==
    {[readable |-> TRUE, content |-> t] : t \in SmaliTexts}
        \cup {[readable |-> FALSE, content |-> <<>>]}

SmaliPatterns == {<<>>, <<"a">>, <<"A">>, <<"a", "\n">>}

\* the project directory and the path of the i-th file rglob yields
smali_apk_path == Path(<<"/", "w", "/", "p">>)

smali_file(i) ==
    PathJoin(smali_apk_path,
             <<"smali", "/", <<"a", "b", "c", "d">>[i], ".smali">>)

\* p.relative_to(base), p below base
relative_to(p, base) ==
    [root |-> <<>>, parts |-> SubSeq(p.parts, Len(base.parts) + 1, Len(p.parts))]

RECURSIVE line_matches(_, _, _, _, _)
\* the loop over enumerate(lines, 1), from line i on: the entries appended
line_matches(rel, lines, i, search_pattern, case_sensitive) ==
    IF i > Len(lines) THEN <<>>
    ELSE LET line        == lines[i]
             line_search == IF case_sensitive THEN line ELSE lower(line)
         IN  (IF Contains(line_search, search_pattern)
              THEN << PathStr(rel) \o <<":", ToString(i), ": ">> \o strip(line) >>
              ELSE <<>>)
             \o line_matches(rel, lines, i + 1, search_pattern, case_sensitive)

\* the try block for one file: a file whose read raises appends nothing
file_matches(i, file, search_pattern, case_sensitive) ==
    IF ~file.readable THEN <<>>
    ELSE LET content        == file.content
             search_content == IF case_sensitive THEN content ELSE lower(content)
         IN  IF Contains(search_content, search_pattern)
             THEN line_matches(relative_to(smali_file(i), smali_apk_path),
                               SplitOn(content, "\n"), 1,
                               search_pattern, case_sensitive)
             ELSE <<>>

RECURSIVE smali_matches(_, _, _, _)
\* the list `matches` after the loop over the files, from file i on
smali_matches(files, i, search_pattern, case_sensitive) ==
    IF i > Len(files) THEN <<>>
    ELSE file_matches(i, files[i], search_pattern, case_sensitive)
         \o smali_matches(files, i + 1, search_pattern, case_sensitive)

\* matches[:50]
listed(matches) ==
    SubSeq(matches, 1, IF Len(matches) < MaxListed THEN Len(matches) ELSE MaxListed)

\* the count of the first line is that of the entries listed below it
matches_count_listed(matches) == Len(listed(matches))

\* len(matches)
matches_count(matches) == Len(matches)

\* the text _find_smali_references returns once smali directories exist
find_smali_text(files, pattern, case_sensitive) ==
    LET search_pattern == IF case_sensitive THEN pattern ELSE lower(pattern)
        matches        == smali_matches(files, 1, search_pattern, case_sensitive)
    IN  IF Len(matches) = 0
        THEN <<"Pattern '">> \o pattern \o <<"' not found in smali code">>
        ELSE <<"Found ", ToString(matches_count(matches)), " matches for '">>
                 \o pattern \o <<"':\n\n">> \o JoinWith(listed(matches), <<"\n">>)

InitSmali ==
    /\ ServerIdle
    /\ \E files \in BoundedSeq(SmaliFiles, MaxFiles) :
       \E pattern \in SmaliPatterns : \E case_sensitive \in BOOLEAN :
           smali = [at |-> "search", files |-> files, pattern |-> pattern,
                    case_sensitive |-> case_sensitive, text |-> <<>>]
    /\ manifest = <<>>
    /\ resource = <<>>
    /\ tasks = <<>>

\* _find_smali_references from the loop over the files to its return
find_smali_references ==
    /\ smali.at = "search"
    /\ smali' = [smali EXCEPT
                    !.at = "returned",
                    !.text = find_smali_text(smali.files, smali.pattern,
                                             smali.case_sensitive)]
    /\ UNCHANGED <<server, manifest, resource, tasks>>

NextSmali == find_smali_references

SpecSmali == InitSmali /\ [][NextSmali]_vars

\* the search in progress: the lines of each file, and the folding of
\* letter case the search applies
SmaliFold(text) == IF smali.case_sensitive THEN text ELSE lower(text)

SmaliLinesOf == [f \in 1..Len(smali.files) |-> SplitOn(smali.files[f].content, "\n")]

\* the matching lines: line h[2] of the readable file h[1] contains the
\* pattern
SmaliHits(lines) ==
    {h \in (1..Len(smali.files)) \X (1..(MaxHeadLines + MaxListed + 1)) :
        /\ smali.files[h[1]].readable
        /\ h[2] <= Len(lines[h[1]])
        /\ Contains(SmaliFold(lines[h[1]][h[2]]), SmaliFold(smali.pattern))}

\* 'relative/path:lineNumber: lineContent' of a matching line, the content
\* without its surrounding whitespace
SmaliEntry(lines, h) ==
    <<"smali", "/", <<"a", "b", "c", "d">>[h[1]], ".smali", ":", ToString(h[2]), ": ">>
        \o strip(lines[h[1]][h[2]])

\* the number of matching lines of each file
SmaliCounts(hits) ==
    [f \in 1..Len(smali.files) |-> Cardinality({g \in hits : g[1] = f})]

RECURSIVE SmaliBefore(_, _)
\* the matching lines of the files before file f
SmaliBefore(counts, f) ==
    IF f = 1 THEN 0 ELSE counts[f - 1] + SmaliBefore(counts, f - 1)

\* matching lines before h, in the order of the files and of their lines
SmaliRank(hits, counts, h) ==
    SmaliBefore(counts, h[1])
        + Cardinality({i \in 1..(h[2] - 1) : <<h[1], i>> \in hits})

SmaliHeader(total) ==
    <<"Found ", ToString(total), " matches for '">> \o smali.pattern \o <<"':\n\n">>

\* the entries listed below the first line of the result
SmaliEntries(total) ==
    IF total = 0 THEN <<>>
    ELSE SplitOn(SubSeq(smali.text, Len(SmaliHeader(total)) + 1, Len(smali.text)), "\n")

\* C12: the result reports the total number of matching lines of all the
\* readable .smali files, also when it exceeds 50, and lists the first
\* min(total, 50) of them as 'relative/path:lineNumber: lineContent'
\* (with no matching line it says the pattern was not found); an
\* unreadable file is skipped: the search still returns, and the total and
\* the entries are those of the other files.
C12_TotalReportedListCapped ==
    smali.at = "returned" =>
        \A lines \in {SmaliLinesOf} : \A hits \in {SmaliHits(lines)} :
        \A counts \in {SmaliCounts(hits)} : \A total \in {Cardinality(hits)} :
        \A entries \in {SmaliEntries(total)} :
            /\ total = 0 =>
                   smali.text = <<"Pattern '">> \o smali.pattern
                                    \o <<"' not found in smali code">>
            /\ total > 0 => StartsWith(smali.text, SmaliHeader(total))
            /\ Len(entries) = (IF total < MaxListed THEN total ELSE MaxListed)
            /\ \A h \in hits :
                   \A rank \in {SmaliRank(hits, counts, h)} :
                       rank < MaxListed => entries[rank + 1] = SmaliEntry(lines, h)

\* a search with more than 50 matching lines that met an unreadable file
C12_Witness ==
    /\ smali.at = "returned"
    /\ Cardinality(SmaliHits(SmaliLinesOf)) > MaxListed
    /\ \E f \in 1..Len(smali.files) : ~smali.files[f].readable
    /\ \E f \in 1..Len(smali.files) : smali.files[f].readable

(***************************************************************************)
(* read_resource.                                                          *)
(*                                                                         *)
(* A URI is a sequence of tokens: "apktool:" and "http:" are schemes, "/"  *)
(* the separator, every other token one path segment.                      *)
(***************************************************************************)
\* path segments after the authority
MaxSegs == 3

UriSegments ==
    {<<>>, <<"p">>, <<"..">>, <<"manifest">>, <<"apktool_yml">>, <<"other">>}

UriPrefixes == {<<"apktool:", "/", "/", "apk">>, <<"http:", "/", "/", "apk">>}

RECURSIVE UriPath(_)
\* each segment after a "/"
UriPath(segs) ==
    IF Len(segs) = 0 THEN <<>> ELSE <<"/">> \o segs[1] \o UriPath(Tail(segs))

Uris == {pre \o UriPath(segs) : pre \in UriPrefixes, segs \in BoundedSeq(UriSegments, MaxSegs)}

\* the files a read may reach, each absent, UTF-8 text or not decodable
ResourceFiles ==
    {PathStr(PathJoin(PathJoin(work_dir, d), f)) :
        d \in {<<>>, <<"p">>, <<"..">>}, f \in {<<"AndroidManifest.xml">>, <<"apktool.yml">>}}

FileStates == {"absent", "text", "undecodable"}

\* path.exists() and path.read_text(encoding='utf-8') on the files fsmap
exists(fsmap, path) ==
    PathStr(path) \in DOMAIN fsmap /\ fsmap[PathStr(path)] # "absent"

file_text(path) == <<"<text of ">> \o PathStr(path) \o <<">">>

read_text(fsmap, path) ==
    IF fsmap[PathStr(path)] = "text" THEN Return(file_text(path)) ELSE DecodeError

\* the body of read_resource's try block
read_resource_try(uri, fsmap) ==
    LET not_found == Raise("FileNotFoundError", <<"Resource not found: ">> \o uri)
        parts     == SplitOn(uri, "/")
    IN  IF ~StartsWith(uri, <<"apktool:", "/", "/", "apk", "/">>) THEN not_found
        ELSE IF Len(parts) < 5 THEN Raise("IndexError", <<"list index out of range">>)
        ELSE LET apk_name      == parts[4]
                 resource_type == parts[5]
                 apk_dir       == PathJoin(work_dir, apk_name)
                 manifest_path == PathJoin(apk_dir, <<"AndroidManifest.xml">>)
                 yml_path      == PathJoin(apk_dir, <<"apktool.yml">>)
             IN  IF resource_type = <<"manifest">>
                 THEN IF exists(fsmap, manifest_path)
                      THEN read_text(fsmap, manifest_path) ELSE not_found
                 ELSE IF resource_type = <<"apktool_yml">>
                 THEN IF exists(fsmap, yml_path)
                      THEN read_text(fsmap, yml_path) ELSE not_found
                 ELSE not_found

\* read_resource: every exception of the body becomes the text of a result
read_resource_step(uri, fsmap) ==
    LET step == read_resource_try(uri, fsmap)
    IN  IF step.k = "raise"
        THEN Return(<<"Error reading resource ">> \o uri \o <<": ">> \o step.text)
        ELSE step

InitResource ==
    /\ ServerIdle
    /\ \E uri \in Uris : \E fsmap \in [ResourceFiles -> FileStates] :
           resource = [at |-> "request", uri |-> uri, files |-> fsmap, result |-> NoStep]
    /\ manifest = <<>>
    /\ smali = <<>>
    /\ tasks = <<>>

read_resource ==
    /\ resource.at = "request"
    /\ resource' = [resource EXCEPT
                       !.at = "returned",
                       !.result = read_resource_step(resource.uri, resource.files)]
    /\ UNCHANGED <<server, manifest, smali, tasks>>

NextResource == read_resource

SpecResource == InitResource /\ [][NextResource]_vars

\* a well-formed URI: apktool://apk/<project>/<kind>, the project a
\* non-empty segment, the kind manifest or apktool_yml
ResourceKinds == {<<"manifest">>, <<"apktool_yml">>}

WellFormedUri(uri) ==
    \E project \in UriSegments \ {<<>>} : \E kind \in ResourceKinds :
        uri = <<"apktool:", "/", "/", "apk", "/">> \o project \o <<"/">> \o kind

\* the file a well-formed URI maps to
ResourceFileOf(uri) ==
    LET parts == SplitOn(uri, "/")
    IN  <<"/", "w", "/">> \o parts[4] \o <<"/">>
            \o (IF parts[5] = <<"manifest">> THEN <<"AndroidManifest.xml">>
                ELSE <<"apktool.yml">>)

ResourceFileState(uri) ==
    IF ResourceFileOf(uri) \in DOMAIN resource.files
    THEN resource.files[ResourceFileOf(uri)] ELSE "absent"

\* the read ended in the not-found error for its URI, raised or reported
ResourceNotFound ==
    \/ resource.result.k = "raise" /\ resource.result.type = "FileNotFoundError"
    \/ Contains(resource.result.text, <<"Resource not found: ">> \o resource.uri)

\* the read returned the raw text of a file
ResourceRawText ==
    /\ resource.result.k = "return"
    /\ \E f \in ResourceFiles : resource.result.text = <<"<text of ">> \o f \o <<">">>

\* C13: reading a resource ends in NotFound for every URI that is
\* malformed (wrong scheme, missing project or kind segment), names another
\* kind than manifest or apktool_yml, or maps to a file that does not exist;
\* it returns a file's raw text only for a well-formed URI whose file is
\* present.
C13_NotFoundUnlessPresent ==
    resource.at = "returned" =>
        /\ (~WellFormedUri(resource.uri) \/ ResourceFileState(resource.uri) = "absent")
               => ResourceNotFound
        /\ ResourceRawText
               => WellFormedUri(resource.uri) /\ ResourceFileState(resource.uri) = "text"

(***************************************************************************)
(* call_tool coroutines on the event loop.                                 *)
(*                                                                         *)
(* Every request in flight is one coroutine; the single thread of the      *)
(* event loop runs a coroutine from one await to the next, so each action  *)
(* below is one such run.  The only awaits of a tool call are those of     *)
(* _run_command: create_subprocess_exec and process.communicate.           *)
(***************************************************************************)
\* requests in flight at once
MaxTasks == 2

TaskIds == 1..MaxTasks

\* a request that has not arrived
NoTask == [at |-> "idle", kind |-> "none", hangs |-> FALSE, result |-> "none",
           passed |-> {}]

\* the handlers that await _run_command ("command") and those that only
\* read files ("local")
TaskKinds == {"command", "local"}

\* a blocking wait for the process in place of the await: the thread is
\* given back while the process is created, not while it runs
YieldsAtExecOnly(point) == point = "exec"

\* `await` at a suspension point gives the thread back to the event loop
Yields(point) == point \in {"exec", "communicate"}

\* coroutine u keeps the thread of the loop while it waits
HoldsLoop(u) ==
    tasks[u].at \in {"exec", "communicate"} /\ ~Yields(tasks[u].at)

\* the loop can run coroutine t: no other coroutine keeps its thread
LoopFreeFor(t) == \A u \in TaskIds \ {t} : ~HoldsLoop(u)

\* the requests suspended in process.communicate
Communicating == {u \in TaskIds : tasks[u].at = "communicate"}

InitLoop ==
    /\ ServerIdle
    /\ tasks = [t \in TaskIds |-> NoTask]
    /\ manifest = <<>>
    /\ smali = <<>>
    /\ resource = <<>>

\* a request arrives and its call_tool coroutine is scheduled; hangs tells
\* whether the external process it may start will ever exit
task_received(t, kind, hangs) ==
    /\ tasks[t].at = "idle"
    /\ LoopFreeFor(t)
    /\ tasks' = [tasks EXCEPT ![t] = [NoTask EXCEPT !.at = "pending", !.kind = kind,
                                                    !.hangs = hangs]]
    /\ UNCHANGED <<server, manifest, smali, resource>>

\* call_tool runs up to its first await, or to its return if the handler
\* awaits nothing
task_start(t, res) ==
    /\ tasks[t].at = "pending"
    /\ LoopFreeFor(t)
    /\ tasks' = [tasks EXCEPT ![t] =
                    IF tasks[t].kind = "command"
                    THEN [@ EXCEPT !.at = "exec"]
                    ELSE [@ EXCEPT !.at = "done", !.result = res,
                                   !.passed = Communicating \ {t}]]
    /\ UNCHANGED <<server, manifest, smali, resource>>

\* create_subprocess_exec returned the process; the coroutine awaits
\* process.communicate
task_spawned(t) ==
    /\ tasks[t].at = "exec"
    /\ LoopFreeFor(t)
    /\ tasks' = [tasks EXCEPT ![t].at = "communicate"]
    /\ UNCHANGED <<server, manifest, smali, resource>>

\* create_subprocess_exec raised; call_tool returns the error result
task_spawn_failed(t) ==
    /\ tasks[t].at = "exec"
    /\ LoopFreeFor(t)
    /\ tasks' = [tasks EXCEPT ![t] = [@ EXCEPT !.at = "done", !.result = "error",
                                               !.passed = Communicating \ {t}]]
    /\ UNCHANGED <<server, manifest, smali, resource>>

\* the process exited, communicate returned and call_tool ran to its return
task_exit(t, code) ==
    /\ tasks[t].at = "communicate"
    /\ ~tasks[t].hangs
    /\ LoopFreeFor(t)
    /\ tasks' = [tasks EXCEPT ![t] =
                    [@ EXCEPT !.at = "done",
                              !.result = IF code = 0 THEN "ok" ELSE "error",
                              !.passed = Communicating \ {t}]]
    /\ UNCHANGED <<server, manifest, smali, resource>>

NextLoop ==
    \/ \E t \in TaskIds, kind \in TaskKinds, hangs \in BOOLEAN :
           task_received(t, kind, hangs)
    \/ \E t \in TaskIds, res \in {"ok", "error"} : task_start(t, res)
    \/ \E t \in TaskIds : task_spawned(t)
    \/ \E t \in TaskIds : task_spawn_failed(t)
    \/ \E t \in TaskIds, code \in ExitCodes : task_exit(t, code)

\* the event loop runs every coroutine that is ready, and a process that
\* does not hang exits
FairLoop ==
    \A t \in TaskIds :
        /\ WF_vars(\E res \in {"ok", "error"} : task_start(t, res))
        /\ WF_vars(task_spawned(t) \/ task_spawn_failed(t))
        /\ WF_vars(\E code \in ExitCodes : task_exit(t, code))

SpecLoop == InitLoop /\ [][NextLoop]_vars /\ FairLoop

\* C14: waiting for a subprocess does not block the dispatch loop: every
\* request in flight whose own external process does not hang runs to
\* completion, whatever the other requests wait for, and a request whose
\* process never exits stays suspended for ever (there is no timeout).
C14_WaitDoesNotBlockOthers ==
    /\ \A t \in TaskIds :
           (tasks[t].at # "idle" /\ ~tasks[t].hangs) ~> (tasks[t].at = "done")
    /\ [][\A t \in TaskIds :
              (tasks[t].at = "communicate" /\ tasks[t].hangs)
                  => tasks'[t].at = "communicate"]_vars

\* a request completed, its process having exited, while another request
\* was suspended on a process that never exits
C14_Witness ==
    \E t \in TaskIds : \E u \in TaskIds \ {t} :
        /\ tasks[t].at = "done"
        /\ tasks[t].kind = "command"
        /\ tasks[t].result = "ok"
        /\ u \in tasks[t].passed
        /\ tasks[u].at = "communicate"
        /\ tasks[u].hangs

=============================================================================
